---------------------------- MODULE Spec2Model ----------------------------
(***************************************************************************)
(* The task store of to-not-do (src/src/file_management.rs): an in-memory  *)
(* Database, its JSON file, and the DatabaseManager operations on them.    *)
(* The file is modelled as its text, one character per byte: save writes   *)
(* the pretty-printed JSON over the start of the file, read parses the     *)
(* whole text.                                                             *)
(***************************************************************************)
EXTENDS Integers, Sequences, FiniteSets, TLC

(***************************************************************************)
(* Bounds of the model.                                                    *)
(***************************************************************************)
\* Number of distinct task ids (Uuid values) the clients use.
MaxId == 2
\* Longest task description, in characters.
MaxDescLen == 1
\* Last day of the modelled calendar; the clock starts at day 1.
MaxDay == 2
\* Number of times a run of the model saves the Database (DatabaseManager::
\* save); a call that would save once more is not made.
MaxWrites == 3
\* Number of times another writer replaces the file in a run of the model.
MaxExtWrites == 1

(***************************************************************************)
(* Text.  A string is a sequence of characters; Char(s, i) is the          *)
(* character at index i, or "" past the end.                               *)
(***************************************************************************)
Char(s, i) == IF i >= 1 /\ i <= Len(s) THEN SubSeq(s, i, i) ELSE ""

Digit(n) == SubSeq("0123456789", n + 1, n + 1)

IsDigit(c) == c \in {"0", "1", "2", "3", "4", "5", "6", "7", "8", "9"}

IsHex(c) == IsDigit(c) \/ c \in {"a", "b", "c", "d", "e", "f"}

DigitValue(c) ==
  CASE c = "0" -> 0 [] c = "1" -> 1 [] c = "2" -> 2 [] c = "3" -> 3
    [] c = "4" -> 4 [] c = "5" -> 5 [] c = "6" -> 6 [] c = "7" -> 7
    [] c = "8" -> 8 [] c = "9" -> 9

(***************************************************************************)
(* Values of the program's types.                                          *)
(***************************************************************************)
\* env!("CARGO_PKG_NAME") and env!("CARGO_PKG_VERSION"): the package is
\* to-not-do; the version text is the same in every file the store writes.
APP_NAME == "to-not-do"
VERSION == "0.1.0"

\* enum TaskState
TaskStates == {"Todo", "InProgress", "Done"}

\* A Uuid is its 128 bits, written here in the hyphenated lower-case form
\* that the uuid crate serializes: the ids of the model are n = 1..MaxId.
UuidOf(n) == "00000000-0000-4000-8000-00000000000" \o Digit(n)
Ids == {UuidOf(n) : n \in 1..MaxId}

\* A NaiveDate is a day of the modelled calendar, the days of one month.
Days == 1..MaxDay

\* Descriptions: the first n <= MaxDescLen characters of a text that has
\* characters JSON must escape (a quote, a backslash) and plain ones.
DescText == "\"a\\b"
Descs == {SubSeq(DescText, 1, n) : n \in 0..MaxDescLen}

\* struct Task
Tasks ==
  [id : Ids, description : Descs, state : TaskStates,
   created_at : Days, updated_at : Days]

\* The tasks a client can build on day now.  The fields of Task are private:
\* Task::new and the struct literals of the tests are the only constructors,
\* and both give state Todo and the clock's date for both dates.  (The date
\* that changes between the two reads of the clock is in HandleAddTask.)
NewTasks(now) ==
  {t \in Tasks : t.state = "Todo" /\ t.created_at = now /\ t.updated_at = now}

\* impl Default for Database
DefaultDatabase == [name |-> APP_NAME, version |-> VERSION, tasks |-> <<>>]

(***************************************************************************)
(* Serialization (derive(Serialize) through serde_json).                   *)
(***************************************************************************)
\* serde_json's string escaping of one character.
EscapeChar(c) ==
  CASE c = "\"" -> "\\\""
    [] c = "\\" -> "\\\\"
    [] c = "\n" -> "\\n"
    [] c = "\t" -> "\\t"
    [] c = "\r" -> "\\r"
    [] OTHER -> c

NeedsEscape(c) == c \in {"\"", "\\", "\n", "\t", "\r"}

RECURSIVE EscapeFrom(_, _)
EscapeFrom(s, i) ==
  IF i > Len(s) THEN "" ELSE EscapeChar(Char(s, i)) \o EscapeFrom(s, i + 1)

\* A Rust String as a JSON string literal: a text with nothing to escape
\* is written as it is.
JsonString(s) ==
  IF \E i \in 1..Len(s) : NeedsEscape(Char(s, i))
  THEN "\"" \o EscapeFrom(s, 1) \o "\""
  ELSE "\"" \o s \o "\""

\* A unit variant of TaskState is written as the name of the variant.
TaskStateJson(st) ==
  CASE st = "Todo" -> JsonString("Todo")
    [] st = "InProgress" -> JsonString("InProgress")
    [] st = "Done" -> JsonString("Done")

\* chrono writes a NaiveDate as YYYY-MM-DD; the calendar is January 2024.
DatePrefix == "2024-01-"
FormatDate(d) == DatePrefix \o Digit(d \div 10) \o Digit(d % 10)
DateJson(d) == JsonString(FormatDate(d))

\* uuid writes a Uuid as its hyphenated text.
UuidJson(u) == JsonString(u)

\* serde_json::to_string_pretty of a Task inside the tasks array
\* (PrettyFormatter, two spaces per level).
TaskPretty(t) ==
  "    {\n"
  \o "      \"id\": " \o UuidJson(t.id) \o ",\n"
  \o "      \"description\": " \o JsonString(t.description) \o ",\n"
  \o "      \"state\": " \o TaskStateJson(t.state) \o ",\n"
  \o "      \"created_at\": " \o DateJson(t.created_at) \o ",\n"
  \o "      \"updated_at\": " \o DateJson(t.updated_at) \o "\n"
  \o "    }"

RECURSIVE TasksPrettyFrom(_, _)
TasksPrettyFrom(ts, i) ==
  IF i > Len(ts) THEN ""
  ELSE (IF i = 1 THEN "\n" ELSE ",\n") \o TaskPretty(ts[i])
       \o TasksPrettyFrom(ts, i + 1)

\* serde_json::to_string_pretty(db)
ToStringPretty(db) ==
  "{\n"
  \o "  \"name\": " \o JsonString(db.name) \o ",\n"
  \o "  \"version\": " \o JsonString(db.version) \o ",\n"
  \o "  \"tasks\": "
  \o (IF Len(db.tasks) = 0 THEN "[]"
      ELSE "[" \o TasksPrettyFrom(db.tasks, 1) \o "\n  ]")
  \o "\n}"

\* serde_json::to_writer of a Task (compact form).
TaskCompact(t) ==
  "{\"id\":" \o UuidJson(t.id)
  \o ",\"description\":" \o JsonString(t.description)
  \o ",\"state\":" \o TaskStateJson(t.state)
  \o ",\"created_at\":" \o DateJson(t.created_at)
  \o ",\"updated_at\":" \o DateJson(t.updated_at) \o "}"

RECURSIVE TasksCompactFrom(_, _)
TasksCompactFrom(ts, i) ==
  IF i > Len(ts) THEN ""
  ELSE (IF i = 1 THEN "" ELSE ",") \o TaskCompact(ts[i])
       \o TasksCompactFrom(ts, i + 1)

\* A faulty to_writer: nothing reaches the file.
ToWriter_Nothing(db) == ""

\* serde_json::to_writer(&file, &db)
ToWriter(db) ==
  "{\"name\":" \o JsonString(db.name)
  \o ",\"version\":" \o JsonString(db.version)
  \o ",\"tasks\":[" \o TasksCompactFrom(db.tasks, 1) \o "]}"

(***************************************************************************)
(* Deserialization (serde_json::from_reader into derive(Deserialize)).     *)
(* A parse result is [ok, val, pos]: pos is the index after the value.     *)
(* The JSON read is the part of the grammar the store's types use:         *)
(* strings, arrays and objects, with any white space between tokens.       *)
(***************************************************************************)
ParseFail == [ok |-> FALSE, val |-> "", pos |-> 0]

\* Bind(e, F) is F(e) with e evaluated once.
Bind(e, F(_)) == CHOOSE r \in {F(v) : v \in {e}} : TRUE

IsWs(c) == c \in {" ", "\n", "\t", "\r"}

\* The index of the first character from i on that is not white space.
RECURSIVE SkipWs(_, _)
SkipWs(s, i) == IF IsWs(Char(s, i)) THEN SkipWs(s, i + 1) ELSE i

\* The character an escape sequence \e stands for ("" when not modelled).
Unescape(e) ==
  CASE e = "\"" -> "\""
    [] e = "\\" -> "\\"
    [] e = "/" -> "/"
    [] e = "n" -> "\n"
    [] e = "t" -> "\t"
    [] e = "r" -> "\r"
    [] OTHER -> ""

\* The number of backslashes in a row that end just before index j, in a
\* string literal whose text starts at index i.
BackslashesBefore(s, i, j) ==
  CHOOSE n \in 0..(j - i) :
    /\ \A k \in (j - n)..(j - 1) : Char(s, k) = "\\"
    /\ j - n - 1 < i \/ Char(s, j - n - 1) # "\\"

\* A quote ends the literal when it is not the target of an escape.
IsClosingQuote(s, i, j) ==
  SubSeq(s, j, j) = "\"" /\ BackslashesBefore(s, i, j) % 2 = 0

\* The text between the quotes, decoded: [ok, val].
RECURSIVE UnescapeFrom(_, _)
UnescapeFrom(raw, i) ==
  LET c == Char(raw, i) IN
  IF c = "" THEN [ok |-> TRUE, val |-> ""]
  ELSE IF c = "\\" THEN
    LET rest == UnescapeFrom(raw, i + 2) IN
    IF Unescape(Char(raw, i + 1)) = "" \/ ~rest.ok
    THEN [ok |-> FALSE, val |-> ""]
    ELSE [ok |-> TRUE, val |-> Unescape(Char(raw, i + 1)) \o rest.val]
  ELSE LET rest == UnescapeFrom(raw, i + 1) IN
       IF ~rest.ok THEN rest ELSE [ok |-> TRUE, val |-> c \o rest.val]

\* A literal without escapes and control characters stands for itself.
DecodeString(raw) ==
  IF \A k \in 1..Len(raw) : SubSeq(raw, k, k) \notin {"\\", "\n", "\t", "\r"}
  THEN [ok |-> TRUE, val |-> raw]
  ELSE IF \E k \in 1..Len(raw) : SubSeq(raw, k, k) \in {"\n", "\t", "\r"}
  THEN [ok |-> FALSE, val |-> ""]
  ELSE UnescapeFrom(raw, 1)

\* The index of the quote that closes the literal whose text starts at
\* index i, or Len(s) + 1 when none does.
ClosingQuote(s, i) ==
  CHOOSE k \in i..(Len(s) + 1) :
    /\ k = Len(s) + 1 \/ IsClosingQuote(s, i, k)
    /\ \A m \in i..(k - 1) : ~IsClosingQuote(s, i, m)

\* A string literal whose opening quote is at index i.
ParseString(s, i) ==
  IF Char(s, i) # "\"" THEN ParseFail
  ELSE Bind(ClosingQuote(s, i + 1), LAMBDA j :
         IF j > Len(s) THEN ParseFail
         ELSE Bind(SubSeq(s, i + 1, j - 1), LAMBDA raw :
                Bind(DecodeString(raw), LAMBDA d :
                  IF d.ok THEN [ok |-> TRUE, val |-> d.val, pos |-> j + 1]
                  ELSE ParseFail)))

RECURSIVE ParseValue(_, _)
RECURSIVE ParseElems(_, _, _)
RECURSIVE ParseMembers(_, _, _)

\* After element v of an array: a comma and the elements that follow, or
\* the closing bracket.
AfterElem(s, v, acc) ==
  IF ~v.ok THEN ParseFail
  ELSE Bind(SkipWs(s, v.pos), LAMBDA j :
         IF Char(s, j) = "," THEN ParseElems(s, j + 1, Append(acc, v.val))
         ELSE IF Char(s, j) = "]"
           THEN [ok |-> TRUE,
                 val |-> [t |-> "arr", items |-> Append(acc, v.val)],
                 pos |-> j + 1]
         ELSE ParseFail)

\* The elements of an array from index i (at an element), up to its "]".
ParseElems(s, i, acc) ==
  Bind(ParseValue(s, i), LAMBDA v : AfterElem(s, v, acc))

\* After member key: v of an object: a comma and the members that follow,
\* or the closing brace.
AfterMember(s, key, v, acc) ==
  IF ~v.ok THEN ParseFail
  ELSE Bind(SkipWs(s, v.pos), LAMBDA j :
         IF Char(s, j) = ","
           THEN ParseMembers(s, j + 1, Append(acc, [key |-> key, val |-> v.val]))
         ELSE IF Char(s, j) = "}"
           THEN [ok |-> TRUE,
                 val |-> [t |-> "obj",
                          members |-> Append(acc, [key |-> key, val |-> v.val])],
                 pos |-> j + 1]
         ELSE ParseFail)

\* After the key k of a member: the colon and the value.
AfterKey(s, k, acc) ==
  IF ~k.ok THEN ParseFail
  ELSE Bind(SkipWs(s, k.pos), LAMBDA c :
         IF Char(s, c) # ":" THEN ParseFail
         ELSE Bind(ParseValue(s, c + 1), LAMBDA v :
                AfterMember(s, k.val, v, acc)))

\* The members of an object from index i (at a key), up to its "}".
ParseMembers(s, i, acc) ==
  Bind(SkipWs(s, i), LAMBDA j :
    Bind(ParseString(s, j), LAMBDA k : AfterKey(s, k, acc)))

\* The JSON value whose first character is at index j.
ParseValueAt(s, j) ==
  IF Char(s, j) = "\"" THEN
    Bind(ParseString(s, j), LAMBDA r :
      IF r.ok
      THEN [ok |-> TRUE, val |-> [t |-> "str", s |-> r.val], pos |-> r.pos]
      ELSE ParseFail)
  ELSE IF Char(s, j) = "[" THEN
    Bind(SkipWs(s, j + 1), LAMBDA k :
      IF Char(s, k) = "]"
      THEN [ok |-> TRUE, val |-> [t |-> "arr", items |-> <<>>], pos |-> k + 1]
      ELSE ParseElems(s, k, <<>>))
  ELSE IF Char(s, j) = "{" THEN
    Bind(SkipWs(s, j + 1), LAMBDA k :
      IF Char(s, k) = "}"
      THEN [ok |-> TRUE, val |-> [t |-> "obj", members |-> <<>>], pos |-> k + 1]
      ELSE ParseMembers(s, k, <<>>))
  ELSE ParseFail

\* One JSON value from index i, after any white space.
ParseValue(s, i) == Bind(SkipWs(s, i), LAMBDA j : ParseValueAt(s, j))

\* Deserializer::end: only white space may follow the value.
ParseDocument(s) ==
  Bind(ParseValue(s, 1), LAMBDA v :
    IF v.ok /\ SkipWs(s, v.pos) = Len(s) + 1 THEN v ELSE ParseFail)

\* The members of object v named key.
FieldsNamed(v, key) == {i \in 1..Len(v.members) : v.members[i].key = key}

\* A derived struct visitor: every field present once (a duplicate field
\* and a missing field are errors), other keys ignored.
HasFields(v, keys) ==
  /\ v.t = "obj"
  /\ \A key \in keys : Cardinality(FieldsNamed(v, key)) = 1

Field(v, key) == v.members[CHOOSE i \in FieldsNamed(v, key) : TRUE].val

IsStr(v) == v.t = "str"

\* Uuid::parse_str of the hyphenated form.
IsUuidText(s) ==
  /\ Len(s) = 36
  /\ \A i \in 1..36 :
       IF i \in {9, 14, 19, 24} THEN Char(s, i) = "-" ELSE IsHex(Char(s, i))

\* NaiveDate::from_str of YYYY-MM-DD, within the modelled month.
IsDateText(s) ==
  /\ Len(s) = 10
  /\ SubSeq(s, 1, 8) = DatePrefix
  /\ IsDigit(Char(s, 9)) /\ IsDigit(Char(s, 10))
  /\ DigitValue(Char(s, 9)) * 10 + DigitValue(Char(s, 10)) \in 1..31

ParseDate(s) == DigitValue(Char(s, 9)) * 10 + DigitValue(Char(s, 10))

\* The variant of TaskState named by a JSON string.
IsTaskStateText(s) == s \in {"Todo", "InProgress", "Done"}

ParseTaskState(s) ==
  CASE s = "Todo" -> "Todo"
    [] s = "InProgress" -> "InProgress"
    [] s = "Done" -> "Done"

TaskFields == {"id", "description", "state", "created_at", "updated_at"}

\* Task::deserialize
IsTaskValue(v) ==
  /\ HasFields(v, TaskFields)
  /\ \A key \in TaskFields : IsStr(Field(v, key))
  /\ IsUuidText(Field(v, "id").s)
  /\ IsTaskStateText(Field(v, "state").s)
  /\ IsDateText(Field(v, "created_at").s)
  /\ IsDateText(Field(v, "updated_at").s)

DecodeTask(v) ==
  [id |-> Field(v, "id").s,
   description |-> Field(v, "description").s,
   state |-> ParseTaskState(Field(v, "state").s),
   created_at |-> ParseDate(Field(v, "created_at").s),
   updated_at |-> ParseDate(Field(v, "updated_at").s)]

DatabaseFields == {"name", "version", "tasks"}

\* Database::deserialize
IsDatabaseValue(v) ==
  /\ HasFields(v, DatabaseFields)
  /\ IsStr(Field(v, "name"))
  /\ IsStr(Field(v, "version"))
  /\ Field(v, "tasks").t = "arr"
  /\ \A i \in 1..Len(Field(v, "tasks").items) :
       IsTaskValue(Field(v, "tasks").items[i])

DecodeDatabase(v) ==
  [name |-> Field(v, "name").s,
   version |-> Field(v, "version").s,
   tasks |-> [i \in 1..Len(Field(v, "tasks").items) |->
                DecodeTask(Field(v, "tasks").items[i])]]

\* serde_json::from_reader::<Database>: [ok, db].
FromReader(text) ==
  Bind(text, LAMBDA s :
    Bind(ParseDocument(s), LAMBDA v :
      IF v.ok /\ IsDatabaseValue(v.val)
      THEN [ok |-> TRUE, db |-> DecodeDatabase(v.val)]
      ELSE [ok |-> FALSE, db |-> DefaultDatabase]))

(***************************************************************************)
(* The state.                                                              *)
(***************************************************************************)
VARIABLES
  path_kind,  \* what is at db_path: "absent", "file" or "dir"
  file,       \* the text of the file at db_path ("" when there is none)
  status,     \* the manager: "closed" (not built), "open", "panicked"
  db,         \* DatabaseManager.db, the in-memory Database
  today,      \* chrono::Utc::now().date_naive()
  op,         \* the method called last, or what else happened last
  res,        \* what it returned: Ok, an error value, or a panic
  ret,        \* the tasks it returned (get_tasks, filter_tasks)
  writes,     \* the number of calls of save so far
  added,      \* history: the tasks given to add_task since the file was
              \* created, while add_task was the only mutating method called
  out,        \* the lines the last command printed
  new_task,   \* the Task that Task::new is building in handle_add_task
  other,      \* the DatabaseManager of a second process on the same file
  ext_writes  \* the number of times another writer replaced the file

\* The state of the store and of its callers' clock.
store_vars ==
  <<path_kind, file, status, db, today, op, res, ret, writes, added>>

\* The state around the store: the command layer, a second process, and
\* other writers of the file.
env_vars == <<out, new_task, other, ext_writes>>

vars == <<store_vars, env_vars>>

\* Results.
Ok == [tag |-> "Ok"]
Panic == [tag |-> "panic"]
TaskNotFound(id) == [tag |-> "TaskNotFound", id |-> id]
UuidAlreadyExists(id) == [tag |-> "UuidAlreadyExists", id |-> id]
FailedToReadFile == [tag |-> "FailedToReadFile"]

(***************************************************************************)
(* The methods' effects on values.                                         *)
(***************************************************************************)
\* A faulty set_state: the state changes and updated_at keeps its value.
set_state_KeepDate(t, state, now) == [t EXCEPT !.state = state]

\* Task::set_state
set_state(t, state, now) == [t EXCEPT !.state = state, !.updated_at = now]

\* Task::set_description
set_description(t, description, now) ==
  [t EXCEPT !.description = description, !.updated_at = now]

\* A faulty contains_task: it looks at the first task only.
contains_task_FirstOnly(tasks, task_id) ==
  tasks # <<>> /\ tasks[1].id = task_id

\* DatabaseManager::contains_task
contains_task(tasks, task_id) == \E i \in 1..Len(tasks) : tasks[i].id = task_id

\* tasks.iter_mut().find(|t| t.id == task_id): the index of the first match.
FindTask(tasks, task_id) ==
  CHOOSE i \in 1..Len(tasks) :
    /\ tasks[i].id = task_id
    /\ \A j \in 1..(i - 1) : tasks[j].id # task_id

\* tasks.retain(|t| t.id != task_id)
Retain(tasks, task_id) == SelectSeq(tasks, LAMBDA t : t.id # task_id)

\* A faulty push: the task goes to the front.
PushFront(tasks, task) == <<task>> \o tasks

\* tasks.push(task.clone())
Push(tasks, task) == Append(tasks, task)

\* A faulty filter_tasks: the test is inverted.
filter_tasks_Inverted(tasks, state) ==
  SelectSeq(tasks, LAMBDA t : t.state # state)

\* DatabaseManager::filter_tasks
filter_tasks(tasks, state) == SelectSeq(tasks, LAMBDA t : t.state = state)

\* write_all on a file opened with write(true) only: the bytes go over the
\* start of the file, and what the file held beyond them stays.
WriteAll(old, data) ==
  IF Len(old) > Len(data)
  THEN data \o SubSeq(old, Len(data) + 1, Len(old))
  ELSE data

\* DatabaseManager::read: [ok, db].
Read(kind, text) ==
  IF kind = "file" THEN FromReader(text)
  ELSE [ok |-> FALSE, db |-> DefaultDatabase]

\* DatabaseManager::is_valid_path
is_valid_path(kind) == kind = "file"

\* A faulty get_tasks: a failed read empties the Database it holds.
get_tasks_ClearOnFail(kind, text, cur_db) ==
  Bind(Read(kind, text), LAMBDA r :
    IF r.ok
    THEN [res |-> Ok, ret |-> r.db.tasks, db |-> r.db]
    ELSE [res |-> FailedToReadFile, ret |-> <<>>, db |-> DefaultDatabase])

\* DatabaseManager::get_tasks on a manager holding cur_db: what it returns
\* and the Database it holds afterwards.
get_tasks(kind, text, cur_db) ==
  Bind(Read(kind, text), LAMBDA r :
    IF r.ok
    THEN [res |-> Ok, ret |-> r.db.tasks, db |-> r.db]
    ELSE [res |-> FailedToReadFile, ret |-> <<>>, db |-> cur_db])

(***************************************************************************)
(* The history variable added.                                             *)
(***************************************************************************)
NoAdds == [on |-> FALSE, tasks |-> <<>>]

\* After add_task(task): the task joins the history when the calls so far
\* were adds with ids that differ from its id.
AddedAfterAdd(task) ==
  IF added.on /\ \A i \in 1..Len(added.tasks) : added.tasks[i].id # task.id
  THEN [on |-> TRUE, tasks |-> Append(added.tasks, task)]
  ELSE NoAdds

(***************************************************************************)
(* The operations.                                                         *)
(***************************************************************************)
\* DatabaseManager::save, then the caller's Ok(()): the open of a missing
\* file or of a directory fails, and expect panics.
SaveAndReturn(new_db) ==
  /\ writes < MaxWrites
  /\ writes' = writes + 1
  /\ IF path_kind = "file"
     THEN /\ file' = WriteAll(file, ToStringPretty(new_db))
          /\ db' = new_db
          /\ status' = "open"
          /\ res' = Ok
     ELSE /\ file' = file
          /\ db' = DefaultDatabase
          /\ status' = "panicked"
          /\ res' = Panic

\* A call that returns an error and changes nothing.
ReturnError(e) ==
  /\ res' = e
  /\ UNCHANGED <<file, db, status, writes>>

\* DatabaseManager::create
Create ==
  IF path_kind = "absent"
  THEN /\ path_kind' = "file"
       /\ file' = WriteAll("", ToWriter(DefaultDatabase))
       /\ db' = DefaultDatabase
       /\ status' = "open"
       /\ res' = Ok
       /\ added' = [on |-> TRUE, tasks |-> <<>>]
  ELSE /\ UNCHANGED <<path_kind, file, added>>
       /\ db' = DefaultDatabase
       /\ status' = "panicked"
       /\ res' = Panic

\* A faulty open: a file that cannot be read is replaced by a new one.
Open_Repair ==
  /\ op' = "open"
  /\ ret' = <<>>
  /\ UNCHANGED <<today, writes>>
  /\ \E r \in {Read(path_kind, file)} :
       IF r.ok
       THEN /\ UNCHANGED <<path_kind, file, added>>
            /\ db' = r.db
            /\ status' = "open"
            /\ res' = Ok
       ELSE /\ path_kind' = "file"
            /\ file' = ToWriter(DefaultDatabase)
            /\ db' = DefaultDatabase
            /\ status' = "open"
            /\ res' = Ok
            /\ added' = [on |-> TRUE, tasks |-> <<>>]

\* DatabaseManager::open
Open ==
  /\ op' = "open"
  /\ ret' = <<>>
  /\ UNCHANGED <<today, writes>>
  /\ IF ~is_valid_path(path_kind) THEN Create
     ELSE \E r \in {Read(path_kind, file)} :
          /\ UNCHANGED <<path_kind, file, added>>
          /\ IF r.ok
             THEN /\ db' = r.db
                  /\ status' = "open"
                  /\ res' = Ok
             ELSE /\ db' = DefaultDatabase
                  /\ status' = "panicked"
                  /\ res' = Panic

\* A faulty add_task: it pushes and saves without looking for the id.
AddTask_Unchecked(task) ==
  /\ status = "open"
  /\ op' = "add_task"
  /\ added' = AddedAfterAdd(task)
  /\ ret' = <<>>
  /\ UNCHANGED <<path_kind, today>>
  /\ SaveAndReturn([db EXCEPT !.tasks = Push(db.tasks, task)])

\* A faulty add_task: it reloads the file before it pushes.
AddTask_Reloading(task) ==
  /\ status = "open"
  /\ op' = "add_task"
  /\ added' = AddedAfterAdd(task)
  /\ ret' = <<>>
  /\ UNCHANGED <<path_kind, today>>
  /\ \E r \in {get_tasks(path_kind, file, db)} :
       IF contains_task(r.db.tasks, task.id)
       THEN ReturnError(UuidAlreadyExists(task.id))
       ELSE SaveAndReturn([r.db EXCEPT !.tasks = Push(r.db.tasks, task)])

\* DatabaseManager::add_task
AddTask(task) ==
  /\ status = "open"
  /\ op' = "add_task"
  /\ added' = AddedAfterAdd(task)
  /\ ret' = <<>>
  /\ UNCHANGED <<path_kind, today>>
  /\ IF contains_task(db.tasks, task.id)
     THEN ReturnError(UuidAlreadyExists(task.id))
     ELSE SaveAndReturn([db EXCEPT !.tasks = Push(db.tasks, task)])

\* A faulty update_description: it saves before it reports a missing task.
UpdateDescription_SaveOnMiss(task_id, description) ==
  /\ status = "open"
  /\ op' = "update_description"
  /\ added' = NoAdds
  /\ ret' = <<>>
  /\ UNCHANGED <<path_kind, today>>
  /\ IF contains_task(db.tasks, task_id)
     THEN \E i \in {FindTask(db.tasks, task_id)} :
          SaveAndReturn([db EXCEPT
            !.tasks[i] = set_description(db.tasks[i], description, today)])
     ELSE /\ writes < MaxWrites
          /\ writes' = writes + 1
          /\ file' = WriteAll(file, ToStringPretty(db))
          /\ res' = TaskNotFound(task_id)
          /\ UNCHANGED <<db, status>>

\* DatabaseManager::update_description
UpdateDescription(task_id, description) ==
  /\ status = "open"
  /\ op' = "update_description"
  /\ added' = NoAdds
  /\ ret' = <<>>
  /\ UNCHANGED <<path_kind, today>>
  /\ IF contains_task(db.tasks, task_id)
     THEN \E i \in {FindTask(db.tasks, task_id)} :
          SaveAndReturn([db EXCEPT
            !.tasks[i] = set_description(db.tasks[i], description, today)])
     ELSE ReturnError(TaskNotFound(task_id))

\* DatabaseManager::set_task_state
SetTaskState(task_id, state) ==
  /\ status = "open"
  /\ op' = "set_task_state"
  /\ added' = NoAdds
  /\ ret' = <<>>
  /\ UNCHANGED <<path_kind, today>>
  /\ IF contains_task(db.tasks, task_id)
     THEN \E i \in {FindTask(db.tasks, task_id)} :
          SaveAndReturn([db EXCEPT
            !.tasks[i] = set_state(db.tasks[i], state, today)])
     ELSE ReturnError(TaskNotFound(task_id))

\* A faulty delete_task: it retains and saves without looking for the id.
DeleteTask_Unchecked(task_id) ==
  /\ status = "open"
  /\ op' = "delete_task"
  /\ added' = NoAdds
  /\ ret' = <<>>
  /\ UNCHANGED <<path_kind, today>>
  /\ SaveAndReturn([db EXCEPT !.tasks = Retain(db.tasks, task_id)])

\* DatabaseManager::delete_task
DeleteTask(task_id) ==
  /\ status = "open"
  /\ op' = "delete_task"
  /\ added' = NoAdds
  /\ ret' = <<>>
  /\ UNCHANGED <<path_kind, today>>
  /\ IF contains_task(db.tasks, task_id)
     THEN SaveAndReturn([db EXCEPT !.tasks = Retain(db.tasks, task_id)])
     ELSE ReturnError(TaskNotFound(task_id))

\* DatabaseManager::get_tasks
GetTasks ==
  /\ status = "open"
  /\ op' = "get_tasks"
  /\ UNCHANGED <<path_kind, file, status, today, writes, added>>
  /\ \E r \in {get_tasks(path_kind, file, db)} :
       /\ db' = r.db
       /\ res' = r.res
       /\ ret' = r.ret

\* A faulty filter_tasks: it reloads the file first, as get_tasks does.
FilterTasks_Reload(state) ==
  /\ status = "open"
  /\ op' = "filter_tasks"
  /\ UNCHANGED <<path_kind, file, status, today, writes, added>>
  /\ \E r \in {get_tasks(path_kind, file, db)} :
       /\ db' = r.db
       /\ res' = Ok
       /\ ret' = filter_tasks(r.db.tasks, state)

\* DatabaseManager::filter_tasks
FilterTasks(state) ==
  /\ status = "open"
  /\ op' = "filter_tasks"
  /\ res' = Ok
  /\ ret' = filter_tasks(db.tasks, state)
  /\ UNCHANGED <<path_kind, file, status, db, today, writes, added>>

\* The date changes between two calls.
Tick ==
  /\ today < MaxDay
  /\ today' = today + 1
  /\ UNCHANGED <<path_kind, file, status, db, op, res, ret, writes, added>>

\* No Task is being built.
NoTask == [built |-> FALSE]

\* Nothing is at db_path and no manager is built.
Init ==
  /\ path_kind = "absent"
  /\ file = ""
  /\ status = "closed"
  /\ db = DefaultDatabase
  /\ today = 1
  /\ op = "none"
  /\ res = Ok
  /\ ret = <<>>
  /\ writes = 0
  /\ added = NoAdds
  /\ out = <<>>
  /\ new_task = NoTask
  /\ other = [status |-> "closed", db |-> DefaultDatabase]
  /\ ext_writes = 0

(***************************************************************************)
(* The file system around the store: what open can find at db_path, and    *)
(* another writer that replaces the file.                                  *)
(***************************************************************************)
\* Databases another writer leaves in the file.
ExternalDatabases ==
  { DefaultDatabase,
    [DefaultDatabase EXCEPT !.tasks =
       << [id |-> UuidOf(1), description |-> "", state |-> "Done",
           created_at |-> 1, updated_at |-> 1] >>],
    [DefaultDatabase EXCEPT !.tasks =
       << [id |-> UuidOf(2), description |-> "", state |-> "InProgress",
           created_at |-> 1, updated_at |-> 1],
          [id |-> UuidOf(1), description |-> "", state |-> "Todo",
           created_at |-> 1, updated_at |-> 1] >>] }

\* The bytes that tests::test_load_corrupted_database writes.
CorruptedData == "corrupted data"

\* The name of a state in the storage format of the specification.
SnakeCase(st) ==
  CASE st = "Todo" -> "todo"
    [] st = "InProgress" -> "in_progress"
    [] st = "Done" -> "done"

\* A file in the storage format of the specification: one task, its state
\* written in snake case.
SnakeCaseFile(st) ==
  "{\n  \"name\": \"to-not-do\",\n  \"version\": \"0.1.0\",\n  \"tasks\": [\n"
  \o "    {\n      \"id\": " \o UuidJson(UuidOf(1)) \o ",\n"
  \o "      \"description\": \"\",\n"
  \o "      \"state\": \"" \o SnakeCase(st) \o "\",\n"
  \o "      \"created_at\": \"2024-01-01\",\n"
  \o "      \"updated_at\": \"2024-01-01\"\n    }\n  ]\n}"

\* The contents another writer leaves in the file.
ExternalFiles ==
  {ToStringPretty(d) : d \in ExternalDatabases}
  \cup {SnakeCaseFile(st) : st \in TaskStates}
  \cup {CorruptedData, ""}

\* Another writer creates or replaces the file.
ExternalWrite(content) ==
  /\ path_kind \in {"absent", "file"}
  /\ ext_writes < MaxExtWrites
  /\ ext_writes' = ext_writes + 1
  /\ path_kind' = "file"
  /\ file' = content
  /\ added' = NoAdds
  /\ op' = "external_write"
  /\ UNCHANGED <<status, db, today, res, ret, writes>>
  /\ UNCHANGED <<out, new_task, other>>

\* db_path is free, or holds a file that the store did not write, or is a
\* directory; no manager is built.
InitEnv ==
  /\ path_kind \in {"absent", "file", "dir"}
  /\ file \in (IF path_kind = "file" THEN ExternalFiles ELSE {""})
  /\ status = "closed"
  /\ db = DefaultDatabase
  /\ today = 1
  /\ op = "none"
  /\ res = Ok
  /\ ret = <<>>
  /\ writes = 0
  /\ added = NoAdds
  /\ out = <<>>
  /\ new_task = NoTask
  /\ other = [status |-> "closed", db |-> DefaultDatabase]
  /\ ext_writes = 0

\* The methods of one DatabaseManager, called directly (as the tests of
\* file_management.rs call them).
Next ==
  \/ Open /\ UNCHANGED env_vars
  \/ \E task \in NewTasks(today) : AddTask(task) /\ UNCHANGED env_vars
  \/ \E task_id \in Ids, description \in Descs :
       UpdateDescription(task_id, description) /\ UNCHANGED env_vars
  \/ \E task_id \in Ids, state \in TaskStates :
       SetTaskState(task_id, state) /\ UNCHANGED env_vars
  \/ \E task_id \in Ids : DeleteTask(task_id) /\ UNCHANGED env_vars
  \/ GetTasks /\ UNCHANGED env_vars
  \/ \E state \in TaskStates : FilterTasks(state) /\ UNCHANGED env_vars
  \/ Tick /\ UNCHANGED env_vars

Spec == Init /\ [][Next]_vars

(***************************************************************************)
(* Two processes, each with its own DatabaseManager on the same file.  The *)
(* store variables are those of the process that runs; other holds the     *)
(* manager of the process that waits.                                      *)
(***************************************************************************)
\* The process that runs stops between two calls and the other one runs.
Switch ==
  /\ other.status = "open"
  /\ status = "open"
  /\ db' = other.db
  /\ status' = other.status
  /\ other' = [status |-> status, db |-> db]
  /\ op' = "switch"
  /\ added' = NoAdds
  /\ UNCHANGED <<path_kind, file, today, res, ret, writes>>
  /\ UNCHANGED <<out, new_task, ext_writes>>

\* One process has created the file and both have opened it.
InitTwo ==
  /\ path_kind = "file"
  /\ file = ToWriter(DefaultDatabase)
  /\ status = "open"
  /\ db = DefaultDatabase
  /\ today = 1
  /\ op = "open"
  /\ res = Ok
  /\ ret = <<>>
  /\ writes = 0
  /\ added = NoAdds
  /\ out = <<>>
  /\ new_task = NoTask
  /\ other = [status |-> "open", db |-> DefaultDatabase]
  /\ ext_writes = 0

\* The calls of the process that runs, and the switch to the other one.
NextTwo ==
  \/ \E task \in NewTasks(today) : AddTask(task) /\ UNCHANGED env_vars
  \/ \E task_id \in Ids, description \in Descs :
       UpdateDescription(task_id, description) /\ UNCHANGED env_vars
  \/ \E task_id \in Ids, state \in TaskStates :
       SetTaskState(task_id, state) /\ UNCHANGED env_vars
  \/ \E task_id \in Ids : DeleteTask(task_id) /\ UNCHANGED env_vars
  \/ GetTasks /\ UNCHANGED env_vars
  \/ Switch

SpecTwo == InitTwo /\ [][NextTwo]_vars

(***************************************************************************)
(* The command layer (src/src/cli.rs) and main (src/src/main.rs).          *)
(***************************************************************************)
\* enum Commands
Commands ==
  [name : {"add"}, task_description : Descs]
  \cup [name : {"update"}, task_id : Ids, task_description : Descs]
  \cup [name : {"delete", "mark-done", "mark-in-progress"}, task_id : Ids]
  \cup [name : {"list"}, filter : {"None"} \cup TaskStates]

Divider == "------------------"

\* impl Display for Task
Display(t) ==
  "Task: " \o t.description \o "\nState: " \o t.state
  \o "\nCreated at: " \o FormatDate(t.created_at)
  \o "\nUpdated at: " \o FormatDate(t.updated_at)
  \o "\nId: " \o t.id

\* for task in tasks { println!(divider); println!("{}", task) }
RECURSIVE TaskLines(_, _)
TaskLines(tasks, i) ==
  IF i > Len(tasks) THEN <<>>
  ELSE <<Divider, Display(tasks[i])>> \o TaskLines(tasks, i + 1)

\* The lines handle_list_tasks prints for the tasks it got.
Listing(tasks, empty_line) ==
  IF tasks = <<>> THEN <<empty_line>>
  ELSE TaskLines(tasks, 1) \o <<Divider>>

\* match result { Ok(_) => println!(ok_line), Err(_) => println!(err_line) }
ResultLine(result, ok_line, err_line) ==
  IF result = Ok THEN ok_line ELSE err_line

\* handle_add_task up to the first read of the clock in Task::new:
\* created_at is known, updated_at is not read yet.
HandleAddTaskEnter ==
  /\ status = "open"
  /\ ~new_task.built
  /\ new_task' = [built |-> TRUE, created_at |-> today]
  /\ UNCHANGED <<store_vars, out, other, ext_writes>>

\* A faulty handle_add_task: Task::new reads the clock for updated_at first.
HandleAddTask_SwappedReads(task_description, task_id) ==
  /\ new_task.built
  /\ AddTask([id |-> task_id, description |-> task_description,
              state |-> "Todo", created_at |-> today,
              updated_at |-> new_task.created_at])
  /\ out' = << "Adding task: " \o task_description,
               ResultLine(res', "Task added successfully",
                          "Failed to add task") >>
  /\ new_task' = NoTask
  /\ UNCHANGED <<other, ext_writes>>

\* The rest of handle_add_task: Task::new reads the clock again for
\* updated_at; Uuid::new_v4() gave task_id.
HandleAddTask(task_description, task_id) ==
  /\ new_task.built
  /\ AddTask([id |-> task_id, description |-> task_description,
              state |-> "Todo", created_at |-> new_task.created_at,
              updated_at |-> today])
  /\ out' = << "Adding task: " \o task_description,
               ResultLine(res', "Task added successfully",
                          "Failed to add task") >>
  /\ new_task' = NoTask
  /\ UNCHANGED <<other, ext_writes>>

\* handle_update_task
HandleUpdateTask(task_id, task_description) ==
  /\ ~new_task.built
  /\ UpdateDescription(task_id, task_description)
  /\ out' = << "Updating task: " \o task_description,
               ResultLine(res', "Task updated successfully",
                          "Task not found") >>
  /\ UNCHANGED <<new_task, other, ext_writes>>

\* handle_delete_task
HandleDeleteTask(task_id) ==
  /\ ~new_task.built
  /\ DeleteTask(task_id)
  /\ out' = << ResultLine(res', "Task deleted successfully",
                          "Task not found") >>
  /\ UNCHANGED <<new_task, other, ext_writes>>

\* handle_list_tasks
HandleListTasks(filter) ==
  /\ ~new_task.built
  /\ IF filter # "None"
     THEN /\ FilterTasks(filter)
          /\ out' = << "Listing tasks with filter: " \o filter >>
                    \o Listing(ret', "No tasks found with the specified filter")
     ELSE /\ GetTasks
          /\ out' = IF res' = Ok THEN Listing(ret', "No tasks found")
                    ELSE << "Failed to retrieve tasks" >>
  /\ UNCHANGED <<new_task, other, ext_writes>>

\* A faulty handle_mark_done: on a task that is Done it undoes the mark.
HandleMarkDone_Toggle(task_id) ==
  /\ ~new_task.built
  /\ SetTaskState(task_id,
       IF \E i \in 1..Len(db.tasks) :
            db.tasks[i].id = task_id /\ db.tasks[i].state = "Done"
       THEN "Todo" ELSE "Done")
  /\ out' = << ResultLine(res', "Task marked as done", "Task not found") >>
  /\ UNCHANGED <<new_task, other, ext_writes>>

\* handle_mark_done
HandleMarkDone(task_id) ==
  /\ ~new_task.built
  /\ SetTaskState(task_id, "Done")
  /\ out' = << ResultLine(res', "Task marked as done", "Task not found") >>
  /\ UNCHANGED <<new_task, other, ext_writes>>

\* A faulty handle_mark_in_progress: the state it sets is Done.
HandleMarkInProgress_Done(task_id) ==
  /\ ~new_task.built
  /\ SetTaskState(task_id, "Done")
  /\ out' = << ResultLine(res', "Task marked as in progress",
                          "Task not found") >>
  /\ UNCHANGED <<new_task, other, ext_writes>>

\* handle_mark_in_progress
HandleMarkInProgress(task_id) ==
  /\ ~new_task.built
  /\ SetTaskState(task_id, "InProgress")
  /\ out' = << ResultLine(res', "Task marked as in progress",
                          "Task not found") >>
  /\ UNCHANGED <<new_task, other, ext_writes>>

\* handle_commands, from the point where, for Commands::Add, Task::new has
\* read the clock once.
HandleCommands(command) ==
  CASE command.name = "add" ->
         \E task_id \in Ids : HandleAddTask(command.task_description, task_id)
    [] command.name = "update" ->
         HandleUpdateTask(command.task_id, command.task_description)
    [] command.name = "delete" -> HandleDeleteTask(command.task_id)
    [] command.name = "list" -> HandleListTasks(command.filter)
    [] command.name = "mark-done" -> HandleMarkDone(command.task_id)
    [] command.name = "mark-in-progress" ->
         HandleMarkInProgress(command.task_id)

\* {:?} of Option<TaskState>
DebugFilter(filter) ==
  IF filter = "None" THEN "None" ELSE "Some(" \o filter \o ")"

\* The line main prints for a command.
MainLine(command) ==
  CASE command.name = "add" -> "Adding task: " \o command.task_description
    [] command.name = "update" -> "Updating task: " \o command.task_id
    [] command.name = "delete" -> "Deleting task: " \o command.task_id
    [] command.name = "list" ->
         "Listing tasks with filter: " \o DebugFilter(command.filter)
    [] command.name = "mark-done" ->
         "Marking task as done: " \o command.task_id
    [] command.name = "mark-in-progress" ->
         "Marking task as in progress: " \o command.task_id

\* main: a run of the program, from Args::parse to the end of the match.
\* It builds no DatabaseManager and does not call handle_commands.
Main(command) ==
  /\ status = "closed"
  /\ out' = << MainLine(command) >>
  /\ UNCHANGED <<store_vars, new_task, other, ext_writes>>

\* Runs of main, and handle_commands on a manager that its caller opened.
NextCli ==
  \/ Open /\ UNCHANGED env_vars
  \/ HandleAddTaskEnter
  \/ \E command \in Commands : HandleCommands(command)
  \/ \E command \in Commands : Main(command)
  \/ Tick /\ UNCHANGED env_vars

SpecCli == Init /\ [][NextCli]_vars

\* The calls that read the file, and add_task and delete_task as the calls
\* that change the in-memory collection, on any db_path and with another
\* writer of the file.
NextEnv ==
  \/ Open /\ UNCHANGED env_vars
  \/ \E task \in NewTasks(today) : AddTask(task) /\ UNCHANGED env_vars
  \/ \E task_id \in Ids : DeleteTask(task_id) /\ UNCHANGED env_vars
  \/ GetTasks /\ UNCHANGED env_vars
  \/ \E state \in TaskStates : FilterTasks(state) /\ UNCHANGED env_vars
  \/ \E content \in ExternalFiles : ExternalWrite(content)

SpecEnv == InitEnv /\ [][NextEnv]_vars

(***************************************************************************)
(* Vocabulary of the properties.  It is written without the operators of   *)
(* the model, so that a property does not inherit what it is to check.     *)
(***************************************************************************)
HasId(tasks, task_id) == \E i \in 1..Len(tasks) : tasks[i].id = task_id

\* The positions of tasks that hold a task in the given state.
StatePositions(tasks, state) == {i \in 1..Len(tasks) : tasks[i].state = state}

\* The k-th smallest member of a set of positions.
NthPosition(ps, k) == CHOOSE i \in ps : Cardinality({j \in ps : j <= i}) = k

\* r is exactly the tasks of the given state, in the order they have in tasks.
IsFilterOf(r, tasks, state) ==
  /\ Len(r) = Cardinality(StatePositions(tasks, state))
  /\ \A k \in 1..Len(r) :
       r[k] = tasks[NthPosition(StatePositions(tasks, state), k)]

\* tasks without the task at position i, the others in their order.
WithoutPosition(tasks, i) ==
  [k \in 1..(Len(tasks) - 1) |-> IF k < i THEN tasks[k] ELSE tasks[k + 1]]

\* The last call was a mutating method that returned success.
MutationSucceeded ==
  /\ op \in {"add_task", "update_description", "set_task_state", "delete_task"}
  /\ res = Ok

\* The store as create left it: opened, never saved.
Fresh == status = "open" /\ writes = 0 /\ db.tasks = <<>>

\* C1: whenever add_task(task) returns success, a get_tasks called next
\* returns success and the last task of its result equals the added task in
\* its five fields.
C1_RoundTripAfterAnyHistory ==
  [][\A task \in NewTasks(today) :
       (AddTask(task) /\ res' = Ok) =>
         \E r \in {get_tasks(path_kind', file', db')} :
           /\ r.res = Ok
           /\ Len(r.ret) > 0
           /\ r.ret[Len(r.ret)] = task]_vars

\* C2: after every add_task, update_description, set_task_state or
\* delete_task that returned success, the file is exactly the serialization
\* of the in-memory Database, and reading it yields the in-memory tasks.
C2_FileIsSerialization ==
  MutationSucceeded =>
    /\ file = ToStringPretty(db)
    /\ Read(path_kind, file).ok
    /\ Read(path_kind, file).db.tasks = db.tasks

\* C3: on a fresh store, get_tasks after add_task of one task returns that
\* task alone, in state Todo; get_tasks after the set_task_state(id, Done)
\* that follows returns it in state Done with updated_at the current date;
\* and get_tasks after any delete_task that returned success returns
\* success and the previous tasks without the deleted one, in their order.
C3_AddSetStateDeleteScenario ==
  [][/\ \A task \in NewTasks(today) :
          (Fresh /\ AddTask(task) /\ res' = Ok) =>
            \E r \in {get_tasks(path_kind', file', db')} :
              r.res = Ok /\ r.ret = <<task>> /\ r.ret[1].state = "Todo"
     /\ \A task_id \in Ids :
          ( /\ writes = 1 /\ op = "add_task" /\ Len(db.tasks) = 1
            /\ db.tasks[1].id = task_id
            /\ SetTaskState(task_id, "Done") /\ res' = Ok ) =>
            \E r \in {get_tasks(path_kind', file', db')} :
              /\ r.res = Ok
              /\ r.ret = <<[db.tasks[1] EXCEPT !.state = "Done",
                                               !.updated_at = today]>>
     /\ \A task_id \in Ids :
          (DeleteTask(task_id) /\ res' = Ok) =>
            \E r \in {get_tasks(path_kind', file', db')} :
              /\ r.res = Ok
              /\ \E i \in 1..Len(db.tasks) :
                   /\ db.tasks[i].id = task_id
                   /\ r.ret = WithoutPosition(db.tasks, i)]_vars

\* C4: from a freshly created store, while the calls are add_task calls
\* with pairwise distinct ids, every add_task returns success, and get_tasks
\* on the same store and get_tasks on a store opened again at the same path
\* both return exactly the added tasks, in the order they were added.
C4_AppendOrderPreserved ==
  (added.on /\ status = "open") =>
    /\ op = "add_task" => res = Ok
    /\ \E r \in {get_tasks(path_kind, file, db)} :
         r.res = Ok /\ r.ret = added.tasks
    /\ \E o \in {Read(path_kind, file)} :
         /\ is_valid_path(path_kind) /\ o.ok
         /\ \E r \in {get_tasks(path_kind, file, o.db)} :
              r.res = Ok /\ r.ret = added.tasks

\* A store opened again after two adds, holding the two tasks in their order.
C4_Witness ==
  /\ op = "open" /\ res = Ok /\ added.on
  /\ Len(added.tasks) = 2
  /\ db.tasks = added.tasks

\* C5: add_task(task) when a task with the same id is in the store returns
\* UuidAlreadyExists and leaves the in-memory tasks and the file unchanged;
\* an add_task raises the number of tasks by one when the id is new and by
\* nothing when it is not.
C5_DuplicateAddRejected ==
  [][\A task \in NewTasks(today) :
       AddTask(task) =>
         IF HasId(db.tasks, task.id)
         THEN /\ res' = UuidAlreadyExists(task.id)
              /\ db'.tasks = db.tasks
              /\ file' = file
         ELSE Len(db'.tasks) = Len(db.tasks) + 1]_vars

\* The second task of two was added again and rejected.
C5_Witness ==
  /\ op = "add_task"
  /\ Len(db.tasks) = 2
  /\ res = UuidAlreadyExists(db.tasks[2].id)

\* C6: no two tasks of the in-memory collection have the same id.
C6_IdsUnique ==
  \A i, j \in 1..Len(db.tasks) :
    db.tasks[i].id = db.tasks[j].id => i = j

\* get_tasks reloaded two tasks into the collection.
C6_Witness ==
  /\ op = "get_tasks" /\ res = Ok
  /\ Len(db.tasks) = 2
  /\ ret = db.tasks

\* C7: delete_task(id) for an id that is not in the store returns
\* TaskNotFound(id) and leaves the in-memory tasks and the file unchanged.
C7_DeleteMissNoEffect ==
  [][\A task_id \in Ids :
       (DeleteTask(task_id) /\ ~HasId(db.tasks, task_id)) =>
         /\ res' = TaskNotFound(task_id)
         /\ db' = db
         /\ file' = file
         /\ writes' = writes]_vars

\* delete_task missed on a store that holds another task.
C7_Witness ==
  /\ op = "delete_task"
  /\ res.tag = "TaskNotFound"
  /\ Len(db.tasks) = 1
  /\ db.tasks[1].id # res.id

\* The tasks differ at position i at most, and there the id and created_at
\* are kept and updated_at is now.
OnlyTouched(old, new, i, now) ==
  /\ Len(new) = Len(old)
  /\ \A k \in 1..Len(old) : k # i => new[k] = old[k]
  /\ new[i].id = old[i].id
  /\ new[i].created_at = old[i].created_at
  /\ new[i].updated_at = now

\* C8: set_task_state(id, s) on an existing task sets its state to s and its
\* updated_at to the current date and keeps its id, description and
\* created_at; update_description(id, d) sets its description to d and its
\* updated_at to the current date and keeps its id, state and created_at;
\* both keep every other task, the number of tasks and their order.
C8_FrameOfMutation ==
  [][/\ \A task_id \in Ids, state \in TaskStates :
          (SetTaskState(task_id, state) /\ HasId(db.tasks, task_id)) =>
            /\ res' = Ok
            /\ \E i \in 1..Len(db.tasks) :
                 /\ db.tasks[i].id = task_id
                 /\ OnlyTouched(db.tasks, db'.tasks, i, today)
                 /\ db'.tasks[i].state = state
                 /\ db'.tasks[i].description = db.tasks[i].description
     /\ \A task_id \in Ids, description \in Descs :
          (UpdateDescription(task_id, description)
             /\ HasId(db.tasks, task_id)) =>
            /\ res' = Ok
            /\ \E i \in 1..Len(db.tasks) :
                 /\ db.tasks[i].id = task_id
                 /\ OnlyTouched(db.tasks, db'.tasks, i, today)
                 /\ db'.tasks[i].description = description
                 /\ db'.tasks[i].state = db.tasks[i].state]_vars

\* The second of two tasks was set to Done on a later day than it was made.
C8_Witness ==
  /\ op = "set_task_state" /\ res = Ok
  /\ Len(db.tasks) = 2
  /\ db.tasks[2].state = "Done"
  /\ db.tasks[2].created_at < db.tasks[2].updated_at
  /\ db.tasks[2].updated_at = today
  /\ db.tasks[1].updated_at = db.tasks[1].created_at

\* C9: update_description(id, d) and set_task_state(id, s) for an id that is
\* not in the store return TaskNotFound(id) and leave the in-memory tasks
\* and the file unchanged.
C9_LookupMissOnUpdate ==
  [][/\ \A task_id \in Ids, description \in Descs :
          (UpdateDescription(task_id, description)
             /\ ~HasId(db.tasks, task_id)) =>
            res' = TaskNotFound(task_id) /\ db' = db /\ file' = file
     /\ \A task_id \in Ids, state \in TaskStates :
          (SetTaskState(task_id, state) /\ ~HasId(db.tasks, task_id)) =>
            res' = TaskNotFound(task_id) /\ db' = db /\ file' = file]_vars

\* update_description missed on a store that holds another task.
C9_Witness ==
  /\ op = "update_description"
  /\ res.tag = "TaskNotFound"
  /\ Len(db.tasks) = 1
  /\ db.tasks[1].id # res.id

\* C10: filter_tasks(s) returns exactly the tasks whose state is s, in the
\* order they have in the collection; the lengths of the results for the
\* three states sum to the number of tasks; and filter_tasks changes neither
\* the in-memory collection nor the file.
C10_FilterCorrect ==
  [][\A state \in TaskStates :
       FilterTasks(state) =>
         /\ res' = Ok
         /\ IsFilterOf(ret', db.tasks, state)
         /\ Len(filter_tasks(db.tasks, "Todo"))
              + Len(filter_tasks(db.tasks, "InProgress"))
              + Len(filter_tasks(db.tasks, "Done")) = Len(db.tasks)
         /\ db' = db
         /\ file' = file]_vars

\* filter_tasks returned the second of two tasks and left the first out.
C10_Witness ==
  /\ op = "filter_tasks"
  /\ Len(db.tasks) = 2
  /\ ret = <<db.tasks[2]>>
  /\ db.tasks[1].state # db.tasks[2].state

\* C11: open on a path where nothing exists returns a store whose get_tasks
\* returns the empty sequence, and leaves at the path a file that parses as
\* a Database with no tasks.
C11_EmptyStoreBootstrap ==
  [][(Open /\ path_kind = "absent") =>
       /\ status' = "open"
       /\ res' = Ok
       /\ \E r \in {get_tasks(path_kind', file', db')} :
            r.res = Ok /\ r.ret = <<>>
       /\ path_kind' = "file"
       /\ \E o \in {Read(path_kind', file')} :
            o.ok /\ o.db = DefaultDatabase /\ o.db.tasks = <<>>]_vars

\* get_tasks answered on the store that open made where nothing existed.
C11_Witness ==
  /\ op = "get_tasks" /\ res = Ok /\ ret = <<>>
  /\ writes = 0 /\ ext_writes = 0
  /\ added.on
  /\ file = ToWriter(DefaultDatabase)

\* C12: open on an existing regular file whose content does not parse as a
\* Database panics, returns no store, and leaves the file as it was.
C12_CorruptStoreFatalAtOpen ==
  [][(Open /\ path_kind = "file" /\ ~FromReader(file).ok) =>
       /\ res' = Panic
       /\ status' = "panicked"
       /\ file' = file
       /\ path_kind' = path_kind
       /\ writes' = writes]_vars

\* open panicked on the file of tests::test_load_corrupted_database.
C12_Witness ==
  /\ op = "open" /\ res = Panic /\ status = "panicked"
  /\ path_kind = "file"
  /\ file = CorruptedData

\* The call failed on the file: it could not read or parse it, or could not
\* write it.
IsStorageFailure(result) == result.tag \in {"FailedToReadFile", "panic"}

\* The DatabaseManager method that a command is to call.
StoreCallOf(command) ==
  CASE command.name = "add" -> "add_task"
    [] command.name = "update" -> "update_description"
    [] command.name = "delete" -> "delete_task"
    [] command.name = "list" ->
         IF command.filter = "None" THEN "get_tasks" ELSE "filter_tasks"
    [] command.name \in {"mark-done", "mark-in-progress"} -> "set_task_state"

\* C13: a failure to read or parse the file, or to write it, in the store
\* call of any command ends the process; it is never a value returned to
\* the command layer after which the process goes on.
C13_StorageFailuresAreFatal ==
  [][\A command \in Commands :
       (HandleCommands(command) /\ IsStorageFailure(res')) =>
         status' = "panicked"]_vars

\* C15: a run of the program opens the store and makes the store call that
\* matches its command, once.
C15_ProcessControlFlow ==
  [][\A command \in Commands :
       Main(command) =>
         /\ status' = "open"
         /\ op' = StoreCallOf(command)]_vars

\* C16: every task made by Task::new and changed only by update_description
\* and set_task_state has updated_at >= created_at.
C16_TimestampOrder ==
  \A i \in 1..Len(db.tasks) :
    db.tasks[i].updated_at >= db.tasks[i].created_at

\* The date changed between the two reads of the clock in Task::new, and
\* the task was added.
C16_Witness ==
  /\ op = "add_task" /\ res = Ok
  /\ out = << "Adding task: ", "Task added successfully" >>
  /\ Len(db.tasks) = 1
  /\ db.tasks[1].created_at < db.tasks[1].updated_at

\* The store call that the dispatch table gives a command, as a step.
DispatchedCall(command) ==
  CASE command.name = "add" ->
         /\ op' = "add_task"
         /\ \E task \in Tasks :
              /\ task.description = command.task_description
              /\ task.state = "Todo"
              /\ AddTask(task)
    [] command.name = "update" ->
         UpdateDescription(command.task_id, command.task_description)
    [] command.name = "delete" -> DeleteTask(command.task_id)
    [] command.name = "list" ->
         IF command.filter = "None" THEN GetTasks
         ELSE FilterTasks(command.filter)
    [] command.name = "mark-done" -> SetTaskState(command.task_id, "Done")
    [] command.name = "mark-in-progress" ->
         SetTaskState(command.task_id, "InProgress")

\* The line that tells the user the command succeeded ("" for list, whose
\* success is the listing itself).
SuccessLine(command) ==
  CASE command.name = "add" -> "Task added successfully"
    [] command.name = "update" -> "Task updated successfully"
    [] command.name = "delete" -> "Task deleted successfully"
    [] command.name = "list" -> ""
    [] command.name = "mark-done" -> "Task marked as done"
    [] command.name = "mark-in-progress" -> "Task marked as in progress"

\* The line that tells the user the command failed.
FailureLine(command) ==
  CASE command.name = "add" -> "Failed to add task"
    [] command.name = "list" -> "Failed to retrieve tasks"
    [] OTHER -> "Task not found"

HasLine(lines, line) == \E i \in 1..Len(lines) : lines[i] = line

\* C14: handle_commands makes the one store call of the dispatch table for
\* its command, prints the success line exactly when the call returned
\* success (for list: the tasks it returned) and the failure line exactly
\* when it returned an error, and goes on after TaskNotFound and
\* UuidAlreadyExists.
C14_DispatchTable ==
  [][\A command \in Commands :
       HandleCommands(command) =>
         /\ op' = StoreCallOf(command)
         /\ DispatchedCall(command)
         /\ writes' <= writes + 1
         /\ HasLine(out', FailureLine(command)) <=> res' # Ok
         /\ command.name # "list" =>
              (HasLine(out', SuccessLine(command)) <=> res' = Ok)
         /\ (command.name = "list" /\ res' = Ok) =>
              \A i \in 1..Len(ret') : HasLine(out', Display(ret'[i]))
         /\ res'.tag \in {"TaskNotFound", "UuidAlreadyExists"} =>
              status' = "open"]_vars

\* A delete command missed: its failure line is printed and the store is
\* still open.
C14_Witness ==
  /\ op = "delete_task"
  /\ res.tag = "TaskNotFound"
  /\ out = << "Task not found" >>
  /\ status = "open"
  /\ Len(db.tasks) = 1

\* text holds pattern somewhere.
HasText(text, pattern) ==
  \E i \in 1..(Len(text) - Len(pattern) + 1) :
    SubSeq(text, i, i + Len(pattern) - 1) = pattern

\* C17: the store writes the state of a task as "todo", "in_progress" or
\* "done", and open on a file that uses these strings yields the tasks in
\* the states they name.
C17_StateEncoding ==
  [][/\ \A task \in NewTasks(today) :
          (AddTask(task) /\ res' = Ok) =>
            \A i \in 1..Len(db'.tasks) :
              HasText(file', "\"state\": \""
                             \o SnakeCase(db'.tasks[i].state) \o "\"")
     /\ \A st \in TaskStates :
          (Open /\ path_kind = "file" /\ file = SnakeCaseFile(st)) =>
            /\ status' = "open"
            /\ Len(db'.tasks) = 1
            /\ db'.tasks[1].state = st]_vars

\* C18: when another writer has replaced the file with a valid Database D,
\* get_tasks returns the tasks of D in their order and makes them the
\* in-memory collection, while filter_tasks answers from the in-memory
\* collection as it is and reads nothing.
C18_ReloadAsymmetry ==
  [][/\ \A d \in ExternalDatabases :
          (GetTasks /\ ext_writes > 0 /\ file = ToStringPretty(d)) =>
            /\ res' = Ok
            /\ ret' = d.tasks
            /\ db'.tasks = d.tasks
     /\ \A state \in TaskStates :
          (FilterTasks(state) /\ ext_writes > 0) =>
            /\ IsFilterOf(ret', db.tasks, state)
            /\ db' = db
            /\ file' = file]_vars

\* filter_tasks answered with a task that is in memory while the file, as
\* another writer left it, holds other tasks of that state.
C18_Witness ==
  /\ op = "filter_tasks" /\ status = "open"
  /\ ext_writes = 1
  /\ ret # <<>>
  /\ \E d \in ExternalDatabases :
       /\ file = ToStringPretty(d)
       /\ ~IsFilterOf(ret, d.tasks, ret[1].state)

\* C19: open on a path that exists and is not a regular file returns a store
\* holding a new empty Database, and a valid empty Database is written at
\* the path, as when nothing exists there.
C19_OpenOnNonRegularPath ==
  [][(Open /\ path_kind \notin {"absent", "file"}) =>
       /\ status' = "open"
       /\ res' = Ok
       /\ db' = DefaultDatabase
       /\ \E o \in {Read(path_kind', file')} :
            o.ok /\ o.db = DefaultDatabase]_vars

\* text starts with prefix.
BeginsWith(text, prefix) ==
  Len(prefix) <= Len(text) /\ SubSeq(text, 1, Len(prefix)) = prefix

\* C20: with two managers on one file, every successful mutation writes the
\* in-memory collection of the manager that made it over the file: the file
\* then starts with the serialization of that collection, which holds
\* nothing but what this manager held before plus the task it added, and
\* the other manager is not told.  (That a task added with success by one
\* process is then missing from the file is the state C20_Witness.)
C20_NoProtectionAgainstSecondProcess ==
  [][( /\ op' \in {"add_task", "update_description", "set_task_state",
                   "delete_task"}
       /\ res' = Ok
       /\ writes' = writes + 1 ) =>
       /\ BeginsWith(file', ToStringPretty(db'))
       /\ other' = other
       /\ \A i \in 1..Len(db'.tasks) :
            \/ HasId(db.tasks, db'.tasks[i].id)
            \/ /\ op' = "add_task"
               /\ i = Len(db'.tasks)
               /\ Len(db'.tasks) = Len(db.tasks) + 1]_vars

\* A lost update: both saves so far were adds, one by each process; the
\* file parses and holds the task of the process that added last, and the
\* task that the other process added with success is not in it.
C20_Witness ==
  /\ op = "add_task" /\ res = Ok
  /\ writes = 2
  /\ Len(db.tasks) = 1
  /\ Len(other.db.tasks) = 1
  /\ other.db.tasks[1].id # db.tasks[1].id
  /\ \E o \in {Read(path_kind, file)} :
       /\ o.ok
       /\ o.db.tasks = db.tasks
       /\ ~HasId(o.db.tasks, other.db.tasks[1].id)

\* C21: under the commands of the dispatcher a task that enters the
\* collection is in state Todo, it leaves Todo only by a set_task_state
\* call (MarkDone, MarkInProgress), and a task that is InProgress or Done
\* is InProgress or Done after every step in which it stays.
C21_NoWayBackToTodo ==
  [][/\ \A j \in 1..Len(db'.tasks) :
          ~HasId(db.tasks, db'.tasks[j].id) => db'.tasks[j].state = "Todo"
     /\ \A i \in 1..Len(db.tasks), j \in 1..Len(db'.tasks) :
          db.tasks[i].id = db'.tasks[j].id =>
            /\ db.tasks[i].state # "Todo" => db'.tasks[j].state # "Todo"
            /\ db.tasks[i].state # db'.tasks[j].state =>
                 op' = "set_task_state"]_vars

\* A task that MarkDone had set to Done is still Done after an Update
\* command on it (the three saves are those of Add, MarkDone and Update).
C21_Witness ==
  /\ op = "update_description" /\ res = Ok
  /\ writes = 3
  /\ Len(db.tasks) = 1
  /\ db.tasks[1].state = "Done"
  /\ out = << "Updating task: ", "Task updated successfully" >>

\* C22: a get_tasks call on a file that cannot be read or does not parse
\* returns FailedToReadFile, leaves the Database of the manager as it was,
\* writes nothing, and filter_tasks on the manager afterwards answers from
\* the collection held before the call.
C22_FailedReloadKeepsCache ==
  [][(status = "open" /\ op' = "get_tasks" /\ ~Read(path_kind, file).ok) =>
       /\ res' = FailedToReadFile
       /\ db' = db
       /\ file' = file /\ path_kind' = path_kind /\ writes' = writes
       /\ status' = "open"
       /\ \A s \in TaskStates :
            IsFilterOf(filter_tasks(db'.tasks, s), db.tasks, s)]_vars

\* get_tasks has failed on a file holding "corrupted data" while the
\* manager holds a task.
C22_Witness ==
  /\ op = "get_tasks" /\ res = FailedToReadFile
  /\ status = "open"
  /\ file = CorruptedData
  /\ db.tasks # <<>>

=============================================================================
